---- MODULE Spec2Model ----
(***************************************************************************)
(* State-machine model of the crokinole robot-arm controller.  Two         *)
(* variants of the control loop are modelled side by side:                 *)
(*   "interface" : src/panda_interface/controller.cpp                      *)
(*   "starter"   : src/panda_starter_code/controller.cpp                   *)
(*                                                                         *)
(* Units.  Joint angles, joint velocities, torques, end-effector norms are *)
(* integers in units of 0.001 (rad, rad/s, Nm, m, ...).  Times the code    *)
(* writes in seconds are integers in milliseconds.  The loop time          *)
(* t = controller_counter * dt is kept exact by cross-multiplying: with    *)
(* dt = 1/TicksPerSec s, t > x ms  <=>  counter*1000 > x*TicksPerSec.      *)
(* Decimal numbers parsed from the store are exact decimals [m, e] that    *)
(* stand for m * 10^-e.                                                    *)
(*                                                                         *)
(* One loop iteration is one atomic step: the termination flag is read     *)
(* only at the top of the loop, and every store key is read at most once   *)
(* per iteration, so any interleaving of a signal or of an external store  *)
(* write with an iteration is equivalent to one before or after it.        *)
(***************************************************************************)
EXTENDS Integers, Sequences, FiniteSets, TLC

----------------------------------------------------------------------------
(* Bounds of the model *)

\* loop iterations per second of phase time (the code runs dt = 0.001)
TicksPerSec == 1

\* the tick counter is explored up to SpareSeconds of phase time beyond the
\* last time the code compares it with
SpareSeconds == 3

----------------------------------------------------------------------------
(* Program constants *)

JOINT_CONTROLLER == 0
POSORI_CONTROLLER == 1
JOINT_CONTROLLER_SHOT == 2

WAIT_MODE == 0
EXECUTE_MODE == 1

\* robot->dof() of the 7-joint arm
dof == 7

Joints == 1..dof

Variants == {"interface", "starter"}

Zero7 == <<0, 0, 0, 0, 0, 0, 0>>

\* soft safety values, in 0.001 rad, 0.001 rad/s, 0.001 Nm
joint_position_max == <<2700, 1600, 2700, -200, 2700, 3600, 2700>>
joint_position_min == <<-2700, -1600, -2700, -3000, -2700, 200, -2700>>
joint_velocity_limits == <<2000, 2000, 2000, 2000, 2500, 2500, 2500>>
joint_torques_limits == <<85000, 85000, 85000, 85000, 10000, 10000, 10000>>

\* time slots t_0..t_4 in ms, as initialised by each variant
InitialSlots(v) ==
  IF v = "interface" THEN <<0, 4000, 8000, 12000, 13000>>
  ELSE <<0, 5000, 10000, 15000, 20000>>

\* ready posture of APPROACH in 0.001 rad (the starter's degrees * pi/180, rounded)
q_init_desired(v) ==
  IF v = "interface" THEN <<4, -440, 315, -1630, 1530, 2150, -330>>
  ELSE <<-524, -262, -262, -1833, 0, 1571, 785>>

\* epsilon of robotReachedGoal, in 0.001
epsilon(v) == IF v = "interface" THEN 3000 ELSE 1

----------------------------------------------------------------------------
(* Time *)

\* t = controller_counter * dt, in units of 1/(1000*TicksPerSec) s
TimeOf(counter) == counter * 1000

\* a time given in ms, in the unit of TimeOf
Ms(x) == x * TicksPerSec

\* a duration in ms that may be +infinity (a division by zero in flick_time)
Finite(ms) == [inf |-> FALSE, ms |-> ms]
Infinite == [inf |-> TRUE, ms |-> 0]

\* t < base + d   and   t > base + d   for a duration d, base in ms
LtPlus(t, base, d) == d.inf \/ t < Ms(base + d.ms)
GtPlus(t, base, d) == ~d.inf /\ t > Ms(base + d.ms)
\* (t - base) <= d
DiffLe(t, base, d) == d.inf \/ t - Ms(base) <= Ms(d.ms)

\* the least whole number of seconds that is at least x ms
CeilSeconds(x) == (x + 999) \div 1000

Max(a, b) == IF a >= b THEN a ELSE b

\* the range of controller_counter the model explores: every time the code
\* compares t with lies below it
MaxCounter(slots, d) ==
  (CeilSeconds(Max(slots[5], slots[5] + d.ms)) + SpareSeconds) * TicksPerSec

\* an interval that takes in its upper limit
inRangeClosed(t, lower, upper) == (t <= upper) /\ (t >= lower)

\* return true if t lies in between lower and upper limits
inRange(t, lower, upper) == (t < upper) /\ (t >= lower)

----------------------------------------------------------------------------
(* Decimal parsing: std::stod on a string given as a sequence of characters *)

Digits == <<"0", "1", "2", "3", "4", "5", "6", "7", "8", "9">>

IsDigit(c) == \E d \in 1..10 : Digits[d] = c

DigitVal(c) == (CHOOSE d \in 1..10 : Digits[d] = c) - 1

IsSpace(c) == c \in {" ", "\t", "\n"}

RECURSIVE SkipSpace(_, _)
SkipSpace(s, i) ==
  IF i <= Len(s) /\ IsSpace(s[i]) THEN SkipSpace(s, i + 1) ELSE i

\* the run of digits of s from position i on: [m: their value after acc, n: how many]
RECURSIVE DigitRun(_, _, _, _)
DigitRun(s, i, acc, n) ==
  IF i <= Len(s) /\ IsDigit(s[i])
  THEN DigitRun(s, i + 1, acc * 10 + DigitVal(s[i]), n + 1)
  ELSE [m |-> acc, n |-> n]

\* stod(s): leading white space, an optional sign, digits, an optional '.' and
\* digits; the longest such prefix is converted and the rest is ignored.  With
\* no digit at all stod throws std::invalid_argument: ok = FALSE.
stod(s) ==
  LET i0 == SkipSpace(s, 1)
      neg == i0 <= Len(s) /\ s[i0] = "-"
      i1 == IF i0 <= Len(s) /\ s[i0] \in {"-", "+"} THEN i0 + 1 ELSE i0
      ip == DigitRun(s, i1, 0, 0)
      i2 == i1 + ip.n
      dot == i2 <= Len(s) /\ s[i2] = "."
      fp == IF dot THEN DigitRun(s, i2 + 1, ip.m, 0) ELSE [m |-> ip.m, n |-> 0]
      mag == fp.m
  IN [ok |-> ip.n + fp.n > 0,
      m |-> IF neg THEN 0 - mag ELSE mag,
      e |-> fp.n]

RECURSIVE Pow10(_)
Pow10(n) == IF n = 0 THEN 1 ELSE 10 * Pow10(n - 1)

\* comparison of the decimals a.m * 10^-a.e and b.m * 10^-b.e
DecLe(a, b) == a.m * Pow10(b.e) <= b.m * Pow10(a.e)
DecEq(a, b) == a.m * Pow10(b.e) = b.m * Pow10(a.e)

Dec(m, e) == [m |-> m, e |-> e]

\* the factor 0.001 left out
Unscaled(x) == x

\* 0.001 * x
Milli(x) == [m |-> x.m, e |-> x.e + 3]

\* shot_pos.find(","): the position of the first comma, 0-based, or -1 (npos as int)
RECURSIVE FindFrom(_, _, _)
FindFrom(s, c, i) ==
  IF i > Len(s) THEN -1
  ELSE IF s[i] = c THEN i - 1
  ELSE FindFrom(s, c, i + 1)

find(s, c) == FindFrom(s, c, 1)

\* s.substr(pos, n) with 0-based pos; n = -1 is npos (all the rest)
substr(s, pos, n) ==
  LET last == IF n < 0 \/ pos + n > Len(s) THEN Len(s) ELSE pos + n
  IN SubSeq(s, pos + 1, last)

----------------------------------------------------------------------------
(* Pure functions of the controller *)

Abs(x) == IF x < 0 THEN 0 - x ELSE x

RECURSIVE SumSq(_, _, _)
SumSq(a, b, i) ==
  IF i > dof THEN 0 ELSE (a[i] - b[i]) * (a[i] - b[i]) + SumSq(a, b, i + 1)

\* (robot->_q - q_init_desired).norm() < 0.15, compared on the squares
NearReady(q, v) == SumSq(q, q_init_desired(v), 1) < 150 * 150

AddVec(a, b) == [i \in Joints |-> a[i] + b[i]]

\* safetyChecks with the maximum position compared by >= : the boundary is flagged
JointReportsInclusive(v, q, dq, tau, i) ==
  LET tag(kind) == IF v = "interface" THEN <<kind, i>> ELSE <<kind>>
  IN (IF q[i] >= joint_position_max[i] THEN <<tag("MAX_POSITION")>> ELSE <<>>)
     \o (IF q[i] < joint_position_min[i] THEN <<tag("MIN_POSITION")>> ELSE <<>>)
     \o (IF Abs(dq[i]) > joint_velocity_limits[i] THEN <<tag("VELOCITY")>> ELSE <<>>)
     \o (IF Abs(tau[i]) > joint_torques_limits[i] THEN <<tag("TORQUE")>> ELSE <<>>)

\* the reports safetyChecks prints for joint i, in the order it prints them; the
\* interface variant names the joint (i + 1 for its 0-based i), the starter does not
JointReports(v, q, dq, tau, i) ==
  LET tag(kind) == IF v = "interface" THEN <<kind, i>> ELSE <<kind>>
  IN (IF q[i] > joint_position_max[i] THEN <<tag("MAX_POSITION")>> ELSE <<>>)
     \o (IF q[i] < joint_position_min[i] THEN <<tag("MIN_POSITION")>> ELSE <<>>)
     \o (IF Abs(dq[i]) > joint_velocity_limits[i] THEN <<tag("VELOCITY")>> ELSE <<>>)
     \o (IF Abs(tau[i]) > joint_torques_limits[i] THEN <<tag("TORQUE")>> ELSE <<>>)

RECURSIVE ReportsFrom(_, _, _, _, _)
ReportsFrom(v, q, dq, tau, i) ==
  IF i > dof THEN <<>>
  ELSE JointReports(v, q, dq, tau, i) \o ReportsFrom(v, q, dq, tau, i + 1)

\* soft limit safetycheck as per the driver: what it prints.  Its arguments are
\* passed by value and it returns nothing.
safetyChecks(v, q, dq, tau) == ReportsFrom(v, q, dq, tau, 1)

\* a weighted error from which the position error is subtracted
error_norm_less_position(xdot, xerr, xddot, omega, alpha) ==
  100 * xdot - 10 * xerr + 1000 * xddot + 1000 * omega + 1000 * alpha

\* the weighted error of robotReachedGoal, from the norms, in 0.001
error_norm(xdot, xerr, xddot, omega, alpha) ==
  100 * xdot + 10 * xerr + 1000 * xddot + 1000 * omega + 1000 * alpha

\* if (error_norm < epsilon) return true; return false
ReachedAt(eps, xdot, xerr, xddot, omega, alpha) ==
  error_norm(xdot, xerr, xddot, omega, alpha) < eps

robotReachedGoal(v, xdot, xerr, xddot, omega, alpha) ==
  ReachedAt(epsilon(v), xdot, xerr, xddot, omega, alpha)

\* the branch of calculatePointInTrajectory / calculateRotationInTrajectory that
\* a time t (unit of TimeOf) selects
TrajectorySegment(t, slots) ==
  IF inRange(t, Ms(slots[1]), Ms(slots[2])) THEN "home_to_cue"
  ELSE IF inRange(t, Ms(slots[2]), Ms(slots[3])) THEN "arc"
  ELSE IF inRange(t, Ms(slots[3]), Ms(slots[4])) THEN "dropoff_settle"
  ELSE IF inRange(t, Ms(slots[4]), Ms(slots[5])) THEN "dropoff_shoot"
  ELSE "home"

\* the token compared on its first seven characters only
TokenHasExecutePrefix(token) == token \in {"execute", "executing"}

\* redis_client.get(MODE_CHANGE_KEY) == "execute"
TokenIsExecute(token) == token = "execute"

\* psi <= 1.571 && psi >= 1.569
InCenterBand(p) == DecLe(p, Dec(1571, 3)) /\ DecLe(Dec(1569, 3), p)

\* total_time of the starter: flick_time(start_angle, start_angle + 180.0,
\* hit_velocity, ee_length) = 180 * (4.5 * 0.0254) / hit_velocity s, in ms, for a
\* whole hit_velocity (the quotient truncated to a whole ms)
flick_time(hit_velocity) ==
  IF hit_velocity = 0 THEN Infinite
  ELSE IF hit_velocity > 0 THEN Finite((180 * 1143) \div (10 * hit_velocity))
  ELSE Finite(0 - ((180 * 1143) \div (10 * (0 - hit_velocity))))

----------------------------------------------------------------------------
(* State *)

VARIABLES
  variant,              \* which controller.cpp runs
  total_time,           \* duration of the shot (a local of main)
  t_slots,              \* the globals t_0 .. t_4, in ms
  runloop,              \* the termination flag
  pc,                   \* "loop", "done" (main returned), "aborted" (uncaught exception)
  mode, state, controller_counter,
  modechange, shotpos, shotang,   \* store keys written by the outside
  fgc,                  \* store key of the commanded torques: the value last written by
                        \* this process, <<>> before its first write
  cue_start_pos, psi, centershot, theta_mid,
  joint_task,           \* _kp, _kv, _saturation_velocity, _use_velocity_saturation_flag,
                        \* _desired_position of the joint task
  posori_task,          \* gains and desired pose of the pose task
  joint_task_torques, posori_task_torques, command_torques,
  synth,                \* history: the gains in effect at the last computeTorques calls
  visited,              \* history: the values of state entered in the current EXECUTE cycle
  activations,          \* history: centershot right after the latest activation and
                        \* right after the one before it
  probe                 \* arguments and output of a pure function applied on its own

vars ==
  <<variant, total_time, t_slots, runloop, pc, mode, state, controller_counter,
    modechange, shotpos, shotang, fgc, cue_start_pos, psi, centershot, theta_mid,
    joint_task, posori_task, joint_task_torques, posori_task_torques,
    command_torques, synth, visited, activations, probe>>

\* the variables of the controller
ctlvars ==
  <<variant, total_time, t_slots, runloop, pc, mode, state, controller_counter,
    modechange, shotpos, shotang, fgc, cue_start_pos, psi, centershot, theta_mid,
    joint_task, posori_task, joint_task_torques, posori_task_torques,
    command_torques, synth, visited, activations>>

\* the state as one record, for the operators that compute a loop iteration
Cur ==
  [variant |-> variant, total_time |-> total_time, t_slots |-> t_slots,
   runloop |-> runloop, pc |-> pc, mode |-> mode, state |-> state,
   controller_counter |-> controller_counter, modechange |-> modechange,
   shotpos |-> shotpos, shotang |-> shotang, fgc |-> fgc,
   cue_start_pos |-> cue_start_pos, psi |-> psi, centershot |-> centershot,
   theta_mid |-> theta_mid, joint_task |-> joint_task, posori_task |-> posori_task,
   joint_task_torques |-> joint_task_torques,
   posori_task_torques |-> posori_task_torques,
   command_torques |-> command_torques, synth |-> synth, visited |-> visited,
   activations |-> activations]

\* the next state is the record n.  The fields a loop iteration adds to the
\* record (robot_q, robot_dq, ee, reports, io) are not state: robot->_q,
\* robot->_dq and the end-effector vectors are overwritten at the top of every
\* iteration before anything reads them, and reports and io are the iteration's
\* output.
Becomes(n) ==
  /\ variant' = n.variant /\ total_time' = n.total_time /\ t_slots' = n.t_slots
  /\ runloop' = n.runloop /\ pc' = n.pc /\ mode' = n.mode /\ state' = n.state
  /\ controller_counter' = n.controller_counter /\ modechange' = n.modechange
  /\ shotpos' = n.shotpos /\ shotang' = n.shotang /\ fgc' = n.fgc
  /\ cue_start_pos' = n.cue_start_pos /\ psi' = n.psi /\ centershot' = n.centershot
  /\ theta_mid' = n.theta_mid /\ joint_task' = n.joint_task
  /\ posori_task' = n.posori_task /\ joint_task_torques' = n.joint_task_torques
  /\ posori_task_torques' = n.posori_task_torques
  /\ command_torques' = n.command_torques /\ synth' = n.synth
  /\ visited' = n.visited /\ activations' = n.activations
  /\ probe' = probe

----------------------------------------------------------------------------
(* Values the outside supplies *)

\* activation tokens an external writer may put in the store
Tokens == {"execute", "Execute", "executing", "", "wait"}

\* drop-off strings (mm): a pair, a string without a comma, one with no number
\* before the comma
Pos_100_50 == <<"1", "0", "0", ",", "5", "0">>
Pos_250 == <<"2", "5", "0">>
Pos_bad == <<",", "5">>
Pos_m20_75 == <<"-", "2", "0", ",", "7", ".", "5">>

\* strike-angle strings (rad): inside the band, outside it, on its upper edge,
\* one that is no number, the lower edge, and just outside either edge
Ang_15708 == <<"1", ".", "5", "7", "0", "8">>
Ang_07 == <<"0", ".", "7">>
Ang_1571 == <<"1", ".", "5", "7", "1">>
Ang_bad == <<"x">>
Ang_1569 == <<"1", ".", "5", "6", "9">>
Ang_15689 == <<"1", ".", "5", "6", "8", "9">>
Ang_15711 == <<"1", ".", "5", "7", "1", "1">>
ShotAngles == {Ang_15708, Ang_07, Ang_1571, Ang_bad, Ang_1569, Ang_15689, Ang_15711}

\* the shot commands with a well-formed drop-off string
AngleCommands == {Pos_100_50, Pos_m20_75} \X ShotAngles

\* the shot commands the outside is followed through
ShotCommands ==
  { <<Pos_100_50, Ang_15708>>, <<Pos_250, Ang_07>>, <<Pos_100_50, Ang_1571>>,
    <<Pos_bad, Ang_15708>>, <<Pos_250, Ang_bad>> }

\* hit velocities typed at the starter's prompt
HitVelocities == {-3, 0, 3}

\* joint torques the task library synthesises for the joint task and for the
\* pose task; each is within the limits, their sum is above the 10 Nm limit of
\* joint 5
TauJoint == <<1000, -2000, 500, 3000, 6000, -100, 50>>
TauPose == <<800, 900, -700, 100, 4500, 10, -20>>
\* a joint-task torque with joint 5 just above its limit
TauHigh == <<1000, -2000, 500, 3000, 10001, -100, 50>>

\* safe_joint_positions of the interface variant
safe_joint_positions == <<0, 0, 0, -1600, 0, 1900, 0>>

Bump(q, i, d) == [q EXCEPT ![i] = @ + d]

EeNorms(xdot, xerr, xddot, omega, alpha) ==
  [xdot |-> xdot, xerr |-> xerr, xddot |-> xddot, omega |-> omega, alpha |-> alpha]

\* sensed snapshots of one iteration: joint positions, joint velocities and the
\* end-effector norms the kinematics derive from them
Snapshots(v) ==
  { \* at rest within 0.149 rad of the ready posture, away from home
    [q |-> Bump(q_init_desired(v), 1, 149), dq |-> Zero7,
     ee |-> EeNorms(0, 400, 0, 0, 0)],
    \* the same posture, joint 5 moving above its velocity limit
    [q |-> Bump(q_init_desired(v), 1, 149), dq |-> Bump(Zero7, 5, -2501),
     ee |-> EeNorms(300, 400, 0, 0, 0)],
    \* at rest exactly 0.15 rad from the ready posture
    [q |-> Bump(q_init_desired(v), 1, 150), dq |-> Zero7,
     ee |-> EeNorms(0, 400, 0, 0, 0)],
    \* at rest at home
    [q |-> Bump(q_init_desired(v), 2, 500), dq |-> Zero7,
     ee |-> EeNorms(0, 0, 0, 0, 0)],
    \* at rest at home with joint 1 0.01 rad above its maximum
    [q |-> [q_init_desired(v) EXCEPT ![1] = 2710], dq |-> Zero7,
     ee |-> EeNorms(0, 0, 0, 0, 0)] }

\* further snapshots, which the loop body is checked on in every state
MoreSnapshots(v) ==
  { \* at rest in the safe posture, 0.29 m from home: reached for epsilon = 3 only
    [q |-> safe_joint_positions, dq |-> Zero7, ee |-> EeNorms(0, 290, 0, 0, 0)],
    \* the ready posture itself, the end effector turning slowly
    [q |-> q_init_desired(v), dq |-> Bump(Zero7, 7, 100),
     ee |-> EeNorms(0, 0, 0, 3, 0)],
    \* joint 4 below its minimum and joint 6 above its maximum, moving
    [q |-> <<0, 0, 0, -3001, 0, 3601, 0>>, dq |-> Bump(Zero7, 1, 2001),
     ee |-> EeNorms(500, 900, 10, 20, 5)] }

Input(sn, tj, tp) ==
  [q |-> sn.q, dq |-> sn.dq, ee |-> sn.ee, tauJ |-> tj, tauP |-> tp]

\* what one loop iteration takes from outside: a snapshot and the torques the
\* library computes for the joint task and the pose task
Inputs(v) == { Input(sn, TauJoint, TauPose) : sn \in Snapshots(v) }

\* the inputs of the model and three more, with violations of every kind, which
\* the loop body is checked on in every state
CheckedInputs(v) ==
  Inputs(v) \cup { Input(sn, TauHigh, Zero7) : sn \in MoreSnapshots(v) }

----------------------------------------------------------------------------
(* Calls into the task library *)

\* n-th part of pi in 0.001, rounded: M_PI / n
PiOver(n) == ((3141593 \div n) + 500) \div 1000

Ones(x) == <<x, x, x, x, x, x, x>>

\* posori_task->_desired_position = calculatePointInTrajectory(t) and
\* _desired_orientation = calculateRotationInTrajectory(t, psi): the pose the
\* trajectory has at time t for strike angle p
TrajectoryTarget(t, p) == [set |-> TRUE, t |-> t, psi |-> p]

\* the desired pose a pose task holds before the trajectory is asked: its current pose
CurrentPose == [set |-> FALSE, t |-> 0, psi |-> Dec(0, 0)]

\* a desired joint posture: a named posture, with the terminal joint replaced
\* by the angle last when it is set
Posture(name) == [base |-> name, last_set |-> FALSE, last |-> 0]

TerminalJoint(desired, angle) == [desired EXCEPT !.last_set = TRUE, !.last = angle]

\* joint_task->reInitializeTask(): the joint task holds the posture sensed in
\* this iteration
ReInitJoint(s) == [s EXCEPT !.joint_task.desired = Posture("sensed q")]

\* joint_task->computeTorques(joint_task_torques) with the gains of this moment
ComputeJoint(s, in) ==
  [s EXCEPT !.joint_task_torques = in.tauJ,
            !.synth.joint = [kp |-> s.joint_task.kp, kv |-> s.joint_task.kv,
                             sat |-> s.joint_task.sat]]

\* posori_task->computeTorques(posori_task_torques) with the gains of this moment
ComputePosori(s, in) ==
  [s EXCEPT !.posori_task_torques = in.tauP,
            !.synth.posori = [kp_pos |-> s.posori_task.kp_pos,
                              kv_pos |-> s.posori_task.kv_pos,
                              kp_ori |-> s.posori_task.kp_ori,
                              kv_ori |-> s.posori_task.kv_ori]]

Log(s, event) == [s EXCEPT !.io = Append(@, event)]

----------------------------------------------------------------------------
(* Steps shared by the two variants *)

\* command_torques = joint_task_torques
CommandJoint(s) == [s EXCEPT !.command_torques = s.joint_task_torques]

\* command_torques = posori_task_torques + joint_task_torques
CommandSum(s) ==
  [s EXCEPT !.command_torques = AddVec(s.posori_task_torques, s.joint_task_torques)]

\* robotReachedGoal(x, calculatePointInTrajectory(100), xdot, xddot, omega, alpha):
\* the snapshot gives the norm of x - calculatePointInTrajectory(100) as ee.xerr
ReachedFinalGoal(s) ==
  robotReachedGoal(s.variant, s.ee.xdot, s.ee.xerr, s.ee.xddot, s.ee.omega,
                   s.ee.alpha)

\* a return to WAIT that leaves the token as it is
ReturnKeepsToken(s) ==
  [s EXCEPT !.mode = WAIT_MODE, !.state = JOINT_CONTROLLER,
            !.joint_task.desired = Posture("q_init_desired")]

\* the branch taken when the final goal is reached after t_4
ReturnToWait(s) ==
  Log([s EXCEPT !.mode = WAIT_MODE, !.modechange = "wait",
                !.state = JOINT_CONTROLLER,
                !.joint_task.desired = Posture("q_init_desired")],
      "set modechange")

\* an inspection with authority: a reported violation zeroes the command
InspectSafetyVeto(s) ==
  IF safetyChecks(s.variant, s.robot_q, s.robot_dq, s.command_torques) # <<>>
  THEN Log([s EXCEPT !.reports =
                        safetyChecks(s.variant, s.robot_q, s.robot_dq, s.command_torques),
                     !.command_torques = Zero7],
           "safetyChecks")
  ELSE Log(s, "safetyChecks")

\* the inspection of the soft limits: it prints and touches nothing else
InspectSafety(s) ==
  Log([s EXCEPT !.reports =
                   safetyChecks(s.variant, s.robot_q, s.robot_dq, s.command_torques)],
      "safetyChecks")

\* controller_counter++
CountTick(s) == [s EXCEPT !.controller_counter = @ + 1]

\* redis_client.setEigenMatrixJSON(JOINT_TORQUES_COMMANDED_KEY, command_torques)
Publish(s) == Log([s EXCEPT !.fgc = s.command_torques], "set fgc")

\* reading the robot state from redis at the top of the iteration
ReadRobot(s, in) ==
  [robot_q |-> in.q, robot_dq |-> in.dq, ee |-> in.ee, reports |-> <<>>,
   io |-> <<"get q", "get dq">>] @@ s

\* the loop time of the iteration: t = controller_counter * dt
LoopTime(s) == TimeOf(s.controller_counter)

----------------------------------------------------------------------------
(* The loop body of the interface variant *)

\* the two numbers of the drop-off string: the text before the first comma and
\* the text after it (the whole string twice when it has no comma)
ShotX(shot_pos) == stod(substr(shot_pos, 0, find(shot_pos, ",")))
ShotY(shot_pos) == stod(substr(shot_pos, find(shot_pos, ",") + 1, Len(shot_pos)))

EnterExecute(s) ==
  Log(Log([s EXCEPT !.mode = EXECUTE_MODE], "get shotpos"), "get shotang")

CaptureCue(s) ==
  [s EXCEPT !.cue_start_pos =
               <<Milli(ShotX(s.shotpos)), Milli(ShotY(s.shotpos)), Dec(0, 0), Dec(1, 0)>>]

CapturePsi(s, p) ==
  [s EXCEPT !.psi = Dec(p.m, p.e),
            !.centershot = IF InCenterBand(p) THEN TRUE ELSE @]

\* an uncaught exception ends the process
Abort(s) == [s EXCEPT !.pc = "aborted"]

\* activation: the shot parameters are parsed from the store; a stod that
\* throws is not caught.  The activation also reads the local hit_velocity,
\* which is never initialised: whatever its value, it only goes into
\* shot_angular_velocity, a and w, which are printed and never used again.
ActivateInterface(s) ==
  IF ~(ShotX(s.shotpos).ok /\ ShotY(s.shotpos).ok) THEN Abort(EnterExecute(s))
  ELSE IF ~stod(s.shotang).ok THEN Abort(CaptureCue(EnterExecute(s)))
  ELSE CapturePsi(CaptureCue(EnterExecute(s)), stod(s.shotang))

\* a poll that consumes the token: it writes "wait" back when it activates
PollTokenConsuming(s) ==
  IF TokenIsExecute(s.modechange)
  THEN Log([ActivateInterface(s) EXCEPT !.modechange = "wait"], "set modechange")
  ELSE s

PollTokenInterface(s) ==
  IF TokenIsExecute(s.modechange) THEN ActivateInterface(s) ELSE s

\* a WAIT branch that also inspects the torque it commands
WaitInspected(s, in) ==
  InspectSafety(
    PollTokenInterface(
      Log(CommandJoint(ComputeJoint(ReInitJoint(s), in)), "get modechange")))

WaitInterface(s, in) ==
  PollTokenInterface(
    Log(CommandJoint(ComputeJoint(ReInitJoint(s), in)), "get modechange"))

ApproachTarget(s) ==
  [s EXCEPT !.joint_task.desired = Posture("q_init_desired"), !.joint_task.kp = 250]

ReachedJointGoalInterface(s) ==
  IF NearReady(s.robot_q, s.variant)
  THEN [s EXCEPT !.controller_counter = 0,
                 !.posori_task.desired = TrajectoryTarget(0, s.psi),
                 !.joint_task.kp = 300, !.joint_task.kv = 25,
                 !.posori_task.kp_pos = 400, !.posori_task.kv_pos = 25,
                 !.posori_task.kp_ori = 400, !.posori_task.kv_ori = 25,
                 !.state = POSORI_CONTROLLER]
  ELSE s

JointControllerInterface(s, in, t) ==
  ReachedJointGoalInterface(CommandJoint(ComputeJoint(ApproachTarget(s), in)))

\* a return to WAIT that does not wait for t_4
FinalGoalAnyTime(s, t) ==
  IF ReachedFinalGoal(s) THEN ReturnToWait(s)
  ELSE [s EXCEPT !.joint_task.desired = Posture("safe_joint_positions")]

\* a return to WAIT that also fires 2 s after t_4 whatever the robot does
FinalGoalOrTimeout(s, t) ==
  IF (ReachedFinalGoal(s) \/ t > Ms(s.t_slots[5] + 2000)) /\ t > Ms(s.t_slots[5])
  THEN ReturnToWait(s)
  ELSE [s EXCEPT !.joint_task.desired = Posture("safe_joint_positions")]

FinalGoalInterface(s, t) ==
  IF ReachedFinalGoal(s) /\ t > Ms(s.t_slots[5]) THEN ReturnToWait(s)
  ELSE [s EXCEPT !.joint_task.desired = Posture("safe_joint_positions")]

\* an entry into SHOT that waits for the robot to have settled
StartShotWhenSettled(s, t) ==
  IF ReachedFinalGoal(s) /\ t > Ms(s.t_slots[4]) /\ LtPlus(t, s.t_slots[4], s.total_time)
  THEN [ReInitJoint(s) EXCEPT !.state = JOINT_CONTROLLER_SHOT,
                              !.theta_mid = s.robot_q[dof]]
  ELSE s

\* an entry into SHOT that leaves the pivot angle as it is
StartShotKeepsPivot(s, t) ==
  IF t > Ms(s.t_slots[4]) /\ LtPlus(t, s.t_slots[4], s.total_time)
  THEN [ReInitJoint(s) EXCEPT !.state = JOINT_CONTROLLER_SHOT]
  ELSE s

StartShotInterface(s, t) ==
  IF t > Ms(s.t_slots[4]) /\ LtPlus(t, s.t_slots[4], s.total_time)
  THEN [ReInitJoint(s) EXCEPT !.state = JOINT_CONTROLLER_SHOT,
                              !.theta_mid = s.robot_q[dof]]
  ELSE s

TrackTarget(s, t) ==
  [s EXCEPT !.posori_task.desired = TrajectoryTarget(t, s.psi)]

SaturationOn(s) == [s EXCEPT !.joint_task.flag = TRUE]

PosoriControllerInterface(s, in, t) ==
  CommandSum(
    ComputeJoint(
      ComputePosori(
        TrackTarget(SaturationOn(StartShotInterface(FinalGoalInterface(s, t), t)), t),
        in),
      in))

SetJointKp(s, kp) == [s EXCEPT !.joint_task.kp = kp]

\* the two stages of the shot with the faster cap whatever centershot is
ShotTargetOneCap(s, t) ==
  IF t > Ms(s.t_slots[4]) /\ t < Ms(s.t_slots[5])
  THEN [s EXCEPT !.joint_task.desired = TerminalJoint(@, s.theta_mid + PiOver(24))]
  ELSE IF DiffLe(t, s.t_slots[5], s.total_time)
  THEN [s EXCEPT !.joint_task.flag = TRUE,
                 !.joint_task.sat =
                    <<PiOver(3), PiOver(3), PiOver(3), PiOver(3),
                      PiOver(2), PiOver(2), 3000>>,
                 !.joint_task.desired = TerminalJoint(@, s.theta_mid - PiOver(4))]
  ELSE s

\* the two stages of the shot: wind up before t_4, strike until t_4 + total_time
ShotTargetInterface(s, t) ==
  IF t > Ms(s.t_slots[4]) /\ t < Ms(s.t_slots[5])
  THEN [s EXCEPT !.joint_task.desired = TerminalJoint(@, s.theta_mid + PiOver(24))]
  ELSE IF DiffLe(t, s.t_slots[5], s.total_time)
  THEN [s EXCEPT !.joint_task.flag = TRUE,
                 !.joint_task.sat =
                    IF s.centershot
                    THEN <<PiOver(3), PiOver(3), PiOver(3), PiOver(3),
                           PiOver(2), PiOver(2), 2330>>
                    ELSE <<PiOver(3), PiOver(3), PiOver(3), PiOver(3),
                           PiOver(2), PiOver(2), 3000>>,
                 !.joint_task.desired = TerminalJoint(@, s.theta_mid - PiOver(4))]
  ELSE s

\* the end of the shot without centershot = false
DoneShootingKeepsFlag(s, t) ==
  IF GtPlus(t, s.t_slots[5], s.total_time)
  THEN [s EXCEPT !.joint_task.flag = TRUE,
                 !.posori_task.desired = TrajectoryTarget(t, s.psi),
                 !.joint_task.kp = 200, !.joint_task.kv = 20,
                 !.posori_task.kp_pos = 200, !.posori_task.kv_pos = 20,
                 !.posori_task.kp_ori = 200, !.posori_task.kv_ori = 20,
                 !.joint_task.sat = Ones(PiOver(4)),
                 !.state = POSORI_CONTROLLER]
  ELSE s

DoneShootingInterface(s, t) ==
  IF GtPlus(t, s.t_slots[5], s.total_time)
  THEN [s EXCEPT !.joint_task.flag = TRUE, !.centershot = FALSE,
                 !.posori_task.desired = TrajectoryTarget(t, s.psi),
                 !.joint_task.kp = 200, !.joint_task.kv = 20,
                 !.posori_task.kp_pos = 200, !.posori_task.kv_pos = 20,
                 !.posori_task.kp_ori = 200, !.posori_task.kv_ori = 20,
                 !.joint_task.sat = Ones(PiOver(4)),
                 !.state = POSORI_CONTROLLER]
  ELSE s

JointControllerShotInterface(s, in, t) ==
  DoneShootingInterface(
    CommandJoint(
      ComputeJoint(SetJointKp(ShotTargetInterface(SetJointKp(s, 400), t), 250), in)),
    t)

StateBranchInterface(s, in, t) ==
  IF s.state = JOINT_CONTROLLER THEN JointControllerInterface(s, in, t)
  ELSE IF s.state = POSORI_CONTROLLER THEN PosoriControllerInterface(s, in, t)
  ELSE IF s.state = JOINT_CONTROLLER_SHOT THEN JointControllerShotInterface(s, in, t)
  ELSE s

ExecuteInterface(s, in, t) ==
  CountTick(InspectSafety(StateBranchInterface(Log(s, "get massmatrix"), in, t)))

ModeBranchInterface(s, in) ==
  IF s.mode = WAIT_MODE THEN WaitInterface(s, in)
  ELSE IF s.mode = EXECUTE_MODE THEN ExecuteInterface(s, in, LoopTime(s))
  ELSE s

\* the publish that ends every iteration, unless the process has died in it
PublishInterface(s) == IF s.pc = "aborted" THEN s ELSE Publish(s)

IterationInterface(s, in) == PublishInterface(ModeBranchInterface(ReadRobot(s, in), in))

----------------------------------------------------------------------------
(* The loop body of the starter variant *)

PollTokenStarter(s) ==
  IF TokenIsExecute(s.modechange) THEN [s EXCEPT !.mode = EXECUTE_MODE] ELSE s

WaitStarter(s, in) ==
  PollTokenStarter(Log(CommandJoint(ReInitJoint(s)), "get modechange"))

ReachedJointGoalStarter(s, t) ==
  IF NearReady(s.robot_q, s.variant)
  THEN [ReInitJoint(s) EXCEPT !.posori_task.desired = TrajectoryTarget(t, s.psi),
                              !.joint_task.kp = 0,
                              !.state = POSORI_CONTROLLER,
                              !.controller_counter = 0]
  ELSE s

JointControllerStarter(s, in, t) ==
  ReachedJointGoalStarter(CommandJoint(ComputeJoint(ApproachTarget(s), in)), t)

FinalGoalStarter(s, t) ==
  IF ReachedFinalGoal(s) /\ t > Ms(s.t_slots[5]) THEN ReturnToWait(s) ELSE s

StartShotStarter(s, t) ==
  IF t > Ms(s.t_slots[4]) /\ LtPlus(t, s.t_slots[4], s.total_time)
  THEN [s EXCEPT !.state = JOINT_CONTROLLER_SHOT, !.controller_counter = 0]
  ELSE s

PosoriControllerStarter(s, in, t) ==
  CommandSum(
    ComputeJoint(
      ComputePosori(TrackTarget(StartShotStarter(FinalGoalStarter(s, t), t), t), in),
      in))

ShotTargetStarter(s) ==
  [ReInitJoint(s) EXCEPT !.joint_task.desired = TerminalJoint(@, PiOver(1)),
                         !.joint_task.kp = 250]

DoneShootingStarter(s, t) ==
  IF GtPlus(t, s.t_slots[4], s.total_time)
  THEN [ReInitJoint(s) EXCEPT !.posori_task.desired = TrajectoryTarget(t, s.psi),
                              !.joint_task.kp = 0,
                              !.state = POSORI_CONTROLLER]
  ELSE s

JointControllerShotStarter(s, in, t) ==
  DoneShootingStarter(CommandJoint(ComputeJoint(ShotTargetStarter(s), in)), t)

StateBranchStarter(s, in, t) ==
  IF s.state = JOINT_CONTROLLER THEN JointControllerStarter(s, in, t)
  ELSE IF s.state = POSORI_CONTROLLER THEN PosoriControllerStarter(s, in, t)
  ELSE IF s.state = JOINT_CONTROLLER_SHOT THEN JointControllerShotStarter(s, in, t)
  ELSE s

ExecuteStarter(s, in, t) ==
  CountTick(Publish(InspectSafety(StateBranchStarter(s, in, t))))

ModeBranchStarter(s, in) ==
  IF s.mode = WAIT_MODE THEN WaitStarter(s, in)
  ELSE IF s.mode = EXECUTE_MODE THEN ExecuteStarter(s, in, LoopTime(s))
  ELSE s

IterationStarter(s, in) == ModeBranchStarter(ReadRobot(s, in), in)

----------------------------------------------------------------------------
(* One iteration of while (runloop), and what follows the loop *)

\* the history of the values state takes in an EXECUTE cycle
Visit(s, n) ==
  IF s.mode = WAIT_MODE /\ n.mode = EXECUTE_MODE THEN <<n.state>>
  ELSE IF n.mode = EXECUTE_MODE /\ n.state # s.state THEN Append(s.visited, n.state)
  ELSE s.visited

\* the history of centershot as activations leave it
Activated(s, n) ==
  IF s.mode = WAIT_MODE /\ n.mode = EXECUTE_MODE /\ n.pc = "loop"
  THEN [before |-> s.activations.last,
        last |-> IF n.centershot THEN "true" ELSE "false"]
  ELSE s.activations

Recorded(s, n) ==
  [n EXCEPT !.visited = Visit(s, n), !.activations = Activated(s, n)]

LoopIteration(s, in) ==
  Recorded(s, IF s.variant = "interface" THEN IterationInterface(s, in)
              ELSE IterationStarter(s, in))

\* after the loop: command_torques.setZero(), which only the interface publishes
SetZero(s) == [io |-> <<>>] @@ [s EXCEPT !.command_torques = Zero7, !.pc = "done"]

PublishAfterLoop(s) == IF s.variant = "interface" THEN Publish(s) ELSE s

AfterLoop(s) == PublishAfterLoop(SetZero(s))

----------------------------------------------------------------------------
(* Initial states and actions *)

InitJointTask(v) ==
  [kp |-> IF v = "interface" THEN 150 ELSE 250,
   kv |-> IF v = "interface" THEN 20 ELSE 15,
   sat |-> Ones(PiOver(3)),
   flag |-> TRUE,
   desired |-> Posture("q_init_desired")]

InitPosoriTask(v) ==
  [kp_pos |-> IF v = "interface" THEN 400 ELSE 200,
   kv_pos |-> IF v = "interface" THEN 25 ELSE 20,
   kp_ori |-> IF v = "interface" THEN 400 ELSE 200,
   kv_ori |-> IF v = "interface" THEN 25 ELSE 20,
   desired |-> CurrentPose]

NoSynthesis ==
  [joint |-> [kp |-> 0, kv |-> 0, sat |-> Zero7],
   posori |-> [kp_pos |-> 0, kv_pos |-> 0, kp_ori |-> 0, kv_ori |-> 0]]

NoProbe == [op |-> "none"]

InitController ==
  /\ variant \in Variants
  /\ total_time \in (IF variant = "interface" THEN {Finite(1300)}
                     ELSE {flick_time(hv) : hv \in HitVelocities})
  /\ t_slots = InitialSlots(variant)
  /\ runloop = TRUE
  /\ pc = "loop"
  /\ mode = WAIT_MODE
  /\ state = JOINT_CONTROLLER
  /\ controller_counter = 0
  /\ modechange = "wait"
  /\ shotpos = Pos_100_50
  /\ shotang = Ang_15708
  /\ fgc = <<>>
  /\ cue_start_pos = <<Dec(0, 0), Dec(0, 0), Dec(0, 0), Dec(0, 0)>>
  /\ psi = Dec(15708, 4)
  /\ centershot = FALSE
  /\ theta_mid = -830
  /\ joint_task = InitJointTask(variant)
  /\ posori_task = InitPosoriTask(variant)
  /\ joint_task_torques = Zero7
  /\ posori_task_torques = Zero7
  /\ command_torques = Zero7
  /\ synth = NoSynthesis
  /\ visited = <<>>
  /\ activations = [before |-> "none", last |-> "none"]

Init == InitController /\ probe = NoProbe

\* the loop is entered: runloop is set and the counter is within the explored range
LoopRuns ==
  /\ pc = "loop"
  /\ runloop
  /\ (mode = EXECUTE_MODE => controller_counter < MaxCounter(t_slots, total_time))

Tick == \E in \in Inputs(variant) : Becomes(LoopIteration(Cur, in))

\* an iteration in WAIT_MODE
WaitTick == LoopRuns /\ mode = WAIT_MODE /\ Tick

\* an iteration in EXECUTE_MODE, by the value of state
JointControllerTick ==
  LoopRuns /\ mode = EXECUTE_MODE /\ state = JOINT_CONTROLLER /\ Tick

PosoriControllerTick ==
  LoopRuns /\ mode = EXECUTE_MODE /\ state = POSORI_CONTROLLER /\ Tick

JointControllerShotTick ==
  LoopRuns /\ mode = EXECUTE_MODE /\ state = JOINT_CONTROLLER_SHOT /\ Tick

\* Writes of the outside to the store are followed while the loop runs: once
\* runloop is cleared no key the outside writes is read again.

\* sighandler: SIGINT, SIGTERM or SIGABRT clears runloop
Signal ==
  /\ pc = "loop"
  /\ runloop
  /\ Becomes([Cur EXCEPT !.runloop = FALSE])

\* while (runloop) fails: the code after the loop runs and main returns
Exit ==
  /\ pc = "loop"
  /\ ~runloop
  /\ Becomes(AfterLoop(Cur))

\* an external writer sets the activation token
SetToken ==
  /\ pc = "loop"
  /\ runloop
  /\ \E token \in Tokens : Becomes([Cur EXCEPT !.modechange = token])

\* the store after the shot planner has written the shot command c
WithShot(s, c) == [s EXCEPT !.shotpos = c[1], !.shotang = c[2]]

\* the shot planner writes the shot keys, which only the interface variant reads
SetShot ==
  /\ pc = "loop"
  /\ runloop
  /\ variant = "interface"
  /\ \E c \in ShotCommands : Becomes(WithShot(Cur, c))

Next ==
  \/ WaitTick
  \/ JointControllerTick
  \/ PosoriControllerTick
  \/ JointControllerShotTick
  \/ Signal
  \/ Exit
  \/ SetToken
  \/ SetShot

Spec == Init /\ [][Next]_vars

----------------------------------------------------------------------------
(* safetyChecks applied on its own *)

\* how far beyond a position limit the probes go: 0.01 rad
Overshoot == 10

\* a posture, velocity and torque with every joint well within its limits
MidQ == <<0, 0, 0, -1600, 0, 1900, 0>>

\* joint i's position: below the minimum, at it, between, at the maximum, above it
PositionCases(i) ==
  { joint_position_min[i] - Overshoot, joint_position_min[i], MidQ[i],
    joint_position_max[i], joint_position_max[i] + Overshoot }

\* joint i's velocity and torque: at the limit and just beyond it, in both signs
VelocityCases(i) ==
  { 0 - joint_velocity_limits[i] - 1, 0 - joint_velocity_limits[i], 0,
    joint_velocity_limits[i], joint_velocity_limits[i] + 1 }

TorqueCases(i) ==
  { 0 - joint_torques_limits[i] - 1, 0 - joint_torques_limits[i], 0,
    joint_torques_limits[i], joint_torques_limits[i] + 1 }

\* the joint after joint i
NextJoint(i) == (i % dof) + 1

\* snapshots that take joint i through the cases, the joint after it resting
\* within its limits or above its maximum position
ProbesOf(i) ==
  { [op |-> "safetyChecks", done |-> FALSE, reports |-> <<>>, joint |-> i,
     q |-> [[MidQ EXCEPT ![NextJoint(i)] =
                IF other THEN joint_position_max[NextJoint(i)] + Overshoot ELSE @]
            EXCEPT ![i] = pq],
     dq |-> [Zero7 EXCEPT ![i] = pv],
     tau |-> [Zero7 EXCEPT ![i] = pt]] :
    pq \in PositionCases(i), pv \in VelocityCases(i), pt \in TorqueCases(i),
    other \in BOOLEAN }

SafetyProbes == UNION { ProbesOf(i) : i \in Joints }

InitSafety == InitController /\ probe \in SafetyProbes

\* safetyChecks(robot->_q, robot->_dq, command_torques, dof) on the probe
Inspect ==
  /\ probe.op = "safetyChecks"
  /\ ~probe.done
  /\ probe' = [probe EXCEPT !.done = TRUE,
                            !.reports = safetyChecks(variant, probe.q, probe.dq, probe.tau)]
  /\ UNCHANGED ctlvars

NextSafety == Inspect

SpecSafety == InitSafety /\ [][NextSafety]_vars

----------------------------------------------------------------------------
(* The trajectory generator applied on its own.  Lengths are in 0.0001 m and
   angles in 0.0001 rad; a product of two such numbers is brought back to the
   unit by Scale. *)

M_PI == 31416

\* a product of two numbers in 0.0001, in 0.0001, rounded to the nearest
Scale(x) == (x + 5000) \div 10000

\* a decimal in 0.0001
Fixed4(d) == IF d.e <= 4 THEN d.m * Pow10(4 - d.e) ELSE d.m \div Pow10(d.e - 4)

\* an angle brought into [-pi, pi)
WrapAngle(a) == ((a + M_PI) % (2 * M_PI)) - M_PI

\* sin on [0, pi/2] by its series up to the term in x^9
SinSeries(x) ==
  LET x2 == Scale(x * x)
      t3 == Scale(x * x2) \div 6
      t5 == Scale(t3 * x2) \div 20
      t7 == Scale(t5 * x2) \div 42
      t9 == Scale(t7 * x2) \div 72
  IN x - t3 + t5 - t7 + t9

sin(a) ==
  LET w == WrapAngle(a)
      m == IF Abs(w) > M_PI \div 2 THEN M_PI - Abs(w) ELSE Abs(w)
  IN IF w < 0 THEN 0 - SinSeries(m) ELSE SinSeries(m)

cos(a) == sin(a + M_PI \div 2)

\* the angle between lo and hi, within [0, pi/2], whose tangent is y / x for
\* y, x >= 0
RECURSIVE AtanBisect(_, _, _, _)
AtanBisect(y, x, lo, hi) ==
  IF hi - lo <= 1 THEN (IF y * cos(lo) - x * sin(lo) <= x * sin(hi) - y * cos(hi)
                        THEN lo ELSE hi)
  ELSE LET mid == (lo + hi) \div 2
       IN IF y * cos(mid) - x * sin(mid) > 0 THEN AtanBisect(y, x, mid, hi)
          ELSE AtanBisect(y, x, lo, mid)

atan2(y, x) ==
  IF y = 0 /\ x = 0 THEN 0
  ELSE LET phi == AtanBisect(Abs(y), Abs(x), 0, M_PI \div 2)
           up == IF x >= 0 THEN phi ELSE M_PI - phi
       IN IF y < 0 THEN 0 - up ELSE up

\* double r = 20.125 / 2 * 0.0254
BoardRadius == 2556

x_offset(v) == IF v = "interface" THEN 7385 ELSE 7000
y_offset(v) == IF v = "interface" THEN 1070 + 350 ELSE 0
\* the height of the cue coin: z_offset in the interface variant
z_offset(v) == IF v = "interface" THEN 3120 ELSE 5000

\* home position
xh(v) == IF v = "interface" THEN <<2859, 2787, 4300>> ELSE <<3200, 3500, 7000>>

\* position of the cue coin
xc(v) ==
  << Scale(BoardRadius * sin(0 - M_PI \div 4)) + x_offset(v),
     Scale(BoardRadius * cos(0 - M_PI \div 4)) + y_offset(v),
     z_offset(v) >>

\* drop-off position: T * cue_start_pos in the interface variant, a fixed point
\* of the board's rim in the starter
xcd(v, cue) ==
  IF v = "interface"
  THEN << Fixed4(cue[2]) + Scale(x_offset(v) * Fixed4(cue[4])),
          0 - Fixed4(cue[1]) + Scale(y_offset(v) * Fixed4(cue[4])),
          Fixed4(cue[3]) + Scale(z_offset(v) * Fixed4(cue[4])) >>
  ELSE << Scale(BoardRadius * sin(0 - (3 * M_PI) \div 4)) + x_offset(v),
          Scale(BoardRadius * cos(0 - (3 * M_PI) \div 4)) + y_offset(v),
          z_offset(v) >>

\* home position to cue coin position: xh + (xc - xh) * (t - t_0) / (t_1 - t_0)
HomeToCue(v, t, slots) ==
  [i \in 1..3 |->
     xh(v)[i] + ((xc(v)[i] - xh(v)[i]) * (t - Ms(slots[1]))) \div (Ms(slots[2]) - Ms(slots[1]))]

\* the cue coin moved along the rim from its position towards the drop-off
CueToDropOff(v, t, slots, cue) ==
  LET start == atan2(xc(v)[1] - x_offset(v), xc(v)[2] - y_offset(v))
      tf == atan2(xcd(v, cue)[1] - x_offset(v), xcd(v, cue)[2] - y_offset(v))
      old_range == Ms(slots[3]) - Ms(slots[2])
      new_range == tf - start
      new_t == (((t - Ms(slots[2])) * new_range) \div old_range) + start
  IN << Scale(BoardRadius * sin(new_t)) + x_offset(v),
        Scale(BoardRadius * cos(new_t)) + y_offset(v),
        xc(v)[3] >>

calculatePointInTrajectory(v, t, slots, cue) ==
  CASE TrajectorySegment(t, slots) = "home_to_cue" -> HomeToCue(v, t, slots)
    [] TrajectorySegment(t, slots) = "arc" -> CueToDropOff(v, t, slots, cue)
    [] TrajectorySegment(t, slots) = "dropoff_settle" -> xcd(v, cue)
    [] TrajectorySegment(t, slots) = "dropoff_shoot" -> xcd(v, cue)
    [] OTHER -> xh(v)

\* A desired orientation is R * home_orientation with R a rotation about the
\* vertical axis: it is given by the angle of R, in [-pi, pi).

\* the yaw ramp of the first interval; the starter keeps home_orientation there
TurnToCue(v, t, slots) ==
  IF v = "interface"
  THEN WrapAngle(((0 - M_PI \div 4) * (t - Ms(slots[1]))) \div (Ms(slots[2]) - Ms(slots[1])))
  ELSE 0

\* the fixed yaw with which the coin is gathered
GatherCoin(v) == IF v = "interface" THEN 0 - M_PI \div 4 ELSE 0 - M_PI \div 2

\* hit_rot: the yaw -pi/2 + psi, psi being 135 degrees in the starter
hit_rot(v, p) ==
  IF v = "interface" THEN WrapAngle(0 - M_PI \div 2 + Fixed4(p))
  ELSE WrapAngle(0 - M_PI \div 2 + (135 * M_PI) \div 180)

calculateRotationInTrajectory(v, t, slots, p) ==
  CASE TrajectorySegment(t, slots) = "home_to_cue" -> TurnToCue(v, t, slots)
    [] TrajectorySegment(t, slots) = "arc" -> GatherCoin(v)
    [] TrajectorySegment(t, slots) = "dropoff_settle" -> hit_rot(v, p)
    [] TrajectorySegment(t, slots) = "dropoff_shoot" -> hit_rot(v, p)
    [] OTHER -> 0

\* cue_start_pos as an activation leaves it for a drop-off (x, y) in m
CueAt(x, y) == <<x, y, Dec(0, 0), Dec(1, 0)>>

\* the drop-off positions the generator is asked with: the one of "100,50",
\* the one of "250", one on the rim of the board, one left of the board's axis
CuePositions ==
  { CueAt(Dec(1, 1), Dec(5, 2)), CueAt(Dec(25, 2), Dec(25, 2)),
    CueAt(Dec(0, 0), Dec(2556, 4)), CueAt(Dec(-2, 2), Dec(75, 4)) }

\* the strike angles it is asked with: "1.5708", "0.7" and pi / 4
StrikeAngles == {Dec(15708, 4), Dec(7, 1), Dec(7854, 4)}

\* the times it is asked with: each boundary, the tick before and after it,
\* the middle of each interval, a negative time and t = 100 s
TrajectoryTimes(slots) ==
  UNION { {Ms(slots[i]) - 1, Ms(slots[i]), Ms(slots[i]) + 1} : i \in 1..5 }
    \cup { Ms((slots[i] + slots[i + 1]) \div 2) : i \in 1..4 }
    \cup { Ms(0 - 2000), Ms(100000) }

TrajectoryProbes(slots) ==
  { [op |-> "trajectory", done |-> FALSE, t |-> t, cue |-> c, psi |-> p,
     segment |-> "none", x |-> <<0, 0, 0>>, rot |-> 0] :
    t \in TrajectoryTimes(slots), c \in CuePositions, p \in StrikeAngles }

InitTrajectory == InitController /\ probe \in TrajectoryProbes(t_slots)

\* calculatePointInTrajectory(t) and calculateRotationInTrajectory(t, psi)
Generate ==
  /\ probe.op = "trajectory"
  /\ ~probe.done
  /\ probe' = [probe EXCEPT
       !.done = TRUE,
       !.segment = TrajectorySegment(probe.t, t_slots),
       !.x = calculatePointInTrajectory(variant, probe.t, t_slots, probe.cue),
       !.rot = calculateRotationInTrajectory(variant, probe.t, t_slots, probe.psi)]
  /\ UNCHANGED ctlvars

NextTrajectory == Generate

SpecTrajectory == InitTrajectory /\ [][NextTrajectory]_vars

----------------------------------------------------------------------------
(* robotReachedGoal applied on its own *)

\* norms, in 0.001, around the values at which one term alone reaches the
\* threshold of the interface variant
VelocityNorms == {0, 10, 29, 30}
PositionErrorNorms == {0, 100, 299, 300}
OtherNorms == {0, 1, 2, 3}

GoalProbes ==
  { [op |-> "robotReachedGoal", done |-> FALSE, reached |-> FALSE,
     ee |-> EeNorms(xdot, xerr, xddot, omega, alpha)] :
    xdot \in VelocityNorms, xerr \in PositionErrorNorms,
    xddot \in OtherNorms, omega \in OtherNorms, alpha \in OtherNorms }

InitGoal == InitController /\ probe \in GoalProbes

\* robotReachedGoal(x, x_desired, xdot, xddot, omega, alpha)
Decide ==
  /\ probe.op = "robotReachedGoal"
  /\ ~probe.done
  /\ probe' = [probe EXCEPT
       !.done = TRUE,
       !.reached = robotReachedGoal(variant, probe.ee.xdot, probe.ee.xerr,
                                    probe.ee.xddot, probe.ee.omega, probe.ee.alpha)]
  /\ UNCHANGED ctlvars

NextGoal == Decide

SpecGoal == InitGoal /\ [][NextGoal]_vars

----------------------------------------------------------------------------
(* Properties of the controller *)

Range(f) == {f[i] : i \in DOMAIN f}

IsPrefix(a, b) == Len(a) <= Len(b) /\ a = SubSeq(b, 1, Len(a))

\* the values state takes in a cycle APPROACH, TRACK, SHOT, RETURN
NominalCycle ==
  <<JOINT_CONTROLLER, POSORI_CONTROLLER, JOINT_CONTROLLER_SHOT, POSORI_CONTROLLER>>

\* RETURN: pose control after the shot
InReturn ==
  mode = EXECUTE_MODE /\ state = POSORI_CONTROLLER /\ visited = NominalCycle

\* the goal-reached predicate on the end-effector norms of an input
GoalReached(v, in) ==
  robotReachedGoal(v, in.ee.xdot, in.ee.xerr, in.ee.xddot, in.ee.omega, in.ee.alpha)

\* C1: in every EXECUTE cycle state takes the values of APPROACH, TRACK, SHOT,
\* RETURN in this order, each once, and mode is back at WAIT only after all four
PhasesInOrderOnceEach ==
  /\ IsPrefix(visited, NominalCycle)
  /\ (mode = WAIT_MODE => visited \in {<<>>, NominalCycle})

\* C2: an iteration that starts in WAIT ends in EXECUTE if and only if the
\* token in the store is exactly "execute"; "Execute", "executing", "" and
\* "wait" leave the mode at WAIT
ActivationOnlyOnExecuteToken ==
  \A in \in CheckedInputs(variant) :
    LoopRuns /\ mode = WAIT_MODE =>
      /\ LoopIteration(Cur, in).mode = EXECUTE_MODE <=> modechange = "execute"
      /\ modechange \in {"Execute", "executing", "", "wait"} =>
           LoopIteration(Cur, in).mode = WAIT_MODE

\* an iteration has activated the controller on the token "execute"
ActivatedByExecuteToken ==
  /\ pc = "loop" /\ mode = EXECUTE_MODE /\ modechange = "execute"
  /\ visited = <<JOINT_CONTROLLER>> /\ activations.last # "none"

\* C3: an iteration takes mode from EXECUTE to WAIT only when it starts in
\* RETURN with the goal reached and t > t_4, and it then writes "wait" to the
\* store and sets state to JOINT_CONTROLLER
ReturnToWaitOnlyFromConvergedReturn ==
  \A in \in Inputs(variant) :
    LoopRuns /\ mode = EXECUTE_MODE /\ LoopIteration(Cur, in).mode = WAIT_MODE =>
      /\ InReturn
      /\ GoalReached(variant, in)
      /\ TimeOf(controller_counter) > Ms(t_slots[5])
      /\ LoopIteration(Cur, in).modechange = "wait"
      /\ LoopIteration(Cur, in).state = JOINT_CONTROLLER

\* C4: when the process has exited after a signal, the torque last written to
\* the store is zero on every joint
ZeroTorqueWrittenLast == pc = "done" => fgc = Zero7

\* the torque the active tasks synthesise in an EXECUTE iteration
Synthesized(s, in) ==
  IF s.state = POSORI_CONTROLLER THEN AddVec(in.tauP, in.tauJ) ELSE in.tauJ

\* the input without any violation of a limit on which the two predicates of
\* the state machine have the values near and reached
CleanInput(v, near, reached) ==
  [q |-> IF near THEN q_init_desired(v) ELSE safe_joint_positions,
   dq |-> Zero7,
   ee |-> IF reached THEN EeNorms(0, 0, 0, 0, 0) ELSE EeNorms(0, 400, 0, 0, 0),
   tauJ |-> Zero7, tauP |-> Zero7]

Outcome(n) == <<n.mode, n.state, n.controller_counter>>

\* the iterations on the inputs on which the predicates are near and reached
\* publish the synthesised torque and end in the mode, state and counter of
\* the iteration on the clean input
SameAsClean(near, reached) ==
  LET clean == LoopIteration(Cur, CleanInput(variant, near, reached))
  IN /\ clean.reports = <<>>
     /\ \A in \in CheckedInputs(variant) :
          NearReady(in.q, variant) = near /\ GoalReached(variant, in) = reached =>
            LET n == LoopIteration(Cur, in)
            IN /\ n.fgc = Synthesized(Cur, in)
               /\ Outcome(n) = Outcome(clean)

\* C5: in every EXECUTE iteration the torque written to the store is the torque
\* the active tasks synthesised, and mode, state and the counter come out as
\* they do on an input without any violation
SafetyMonitorIsDiagnosticOnly ==
  LoopRuns /\ mode = EXECUTE_MODE =>
    \A near \in BOOLEAN, reached \in BOOLEAN : SameAsClean(near, reached)

\* a torque above the limit of joint 5 is in the store and the cycle goes on
ViolatingTorquePublished ==
  /\ pc = "loop" /\ mode = EXECUTE_MODE /\ state = POSORI_CONTROLLER
  /\ fgc = AddVec(TauPose, TauJoint)
  /\ Abs(fgc[5]) > joint_torques_limits[5]
  /\ controller_counter > 0

\* the reports of one kind for joint i among the reports of the probe: the
\* interface variant names the joint in each report
Flagged(kind, i) == <<kind, i>> \in Range(probe.reports)

\* how many reports of one kind there are among the reports of the probe
CountOf(kind) ==
  Cardinality({k \in DOMAIN probe.reports : probe.reports[k][1] = kind})

\* the joints of the probe on which a comparison holds
Over(values, limits) == {i \in Joints : values[i] > limits[i]}
Under(values, limits) == {i \in Joints : values[i] < limits[i]}
AbsOver(values, limits) == {i \in Joints : Abs(values[i]) > limits[i]}

\* C6: safetyChecks reports, joint by joint and each kind on its own, a maximum
\* position violation iff q[i] > max[i], a minimum position violation iff
\* q[i] < min[i], a velocity violation iff |dq[i]| > vlimit[i] and a torque
\* violation iff |tau[i]| > taulimit[i]; values at a limit are not reported,
\* and one joint above its maximum with all else within limits gives exactly
\* one report, for that joint
SafetyChecksStrictPerJoint ==
  probe.op = "safetyChecks" /\ probe.done =>
    /\ CountOf("MAX_POSITION") = Cardinality(Over(probe.q, joint_position_max))
    /\ CountOf("MIN_POSITION") = Cardinality(Under(probe.q, joint_position_min))
    /\ CountOf("VELOCITY") = Cardinality(AbsOver(probe.dq, joint_velocity_limits))
    /\ CountOf("TORQUE") = Cardinality(AbsOver(probe.tau, joint_torques_limits))
    /\ variant = "interface" =>
         \A i \in Joints :
           /\ Flagged("MAX_POSITION", i) <=> probe.q[i] > joint_position_max[i]
           /\ Flagged("MIN_POSITION", i) <=> probe.q[i] < joint_position_min[i]
           /\ Flagged("VELOCITY", i) <=> Abs(probe.dq[i]) > joint_velocity_limits[i]
           /\ Flagged("TORQUE", i) <=> Abs(probe.tau[i]) > joint_torques_limits[i]
    /\ \A i \in Joints :
         /\ probe.q = [MidQ EXCEPT ![i] = joint_position_max[i] + Overshoot]
         /\ probe.dq = Zero7 /\ probe.tau = Zero7
         => probe.reports =
              IF variant = "interface" THEN << <<"MAX_POSITION", i>> >>
              ELSE << <<"MAX_POSITION">> >>
    /\ \A i \in Joints :
         /\ probe.q = [MidQ EXCEPT ![i] = joint_position_max[i]]
         /\ Abs(probe.dq[i]) = joint_velocity_limits[i]
         /\ Abs(probe.tau[i]) = joint_torques_limits[i]
         => probe.reports = <<>>

\* joint 3 alone is 0.01 rad above its maximum and the one report names it
OneJointAboveItsMaximum ==
  /\ variant = "interface"
  /\ probe.op = "safetyChecks" /\ probe.done
  /\ probe.q = [MidQ EXCEPT ![3] = joint_position_max[3] + Overshoot]
  /\ probe.dq = Zero7 /\ probe.tau = Zero7
  /\ probe.reports = << <<"MAX_POSITION", 3>> >>

\* C7: an iteration that starts in APPROACH on joint positions not near the
\* ready posture ends in APPROACH, and one that starts in RETURN with the goal
\* not reached ends in RETURN, both in EXECUTE, at every value of the counter
NoRecoveryFromStalledPhase ==
  \A in \in CheckedInputs(variant) :
    /\ LoopRuns /\ mode = EXECUTE_MODE /\ state = JOINT_CONTROLLER
       /\ ~NearReady(in.q, variant)
       => Outcome(LoopIteration(Cur, in)) =
            <<EXECUTE_MODE, JOINT_CONTROLLER, controller_counter + 1>>
    /\ LoopRuns /\ InReturn /\ ~GoalReached(variant, in)
       => Outcome(LoopIteration(Cur, in)) =
            <<EXECUTE_MODE, POSORI_CONTROLLER, controller_counter + 1>>

\* RETURN has lasted to the end of the explored range of the counter
ReturnStalledToTheEnd ==
  /\ pc = "loop" /\ InReturn
  /\ controller_counter = MaxCounter(t_slots, total_time)

\* how many iterations the operator waits for the token to take effect
PatienceTicks == 5

\* k iterations of the loop on the same input, the store left alone
RECURSIVE Run(_, _, _)
Run(s, in, k) ==
  IF k = 0 \/ s.pc # "loop" THEN s ELSE Run(LoopIteration(s, in), in, k - 1)

\* the phase the controller is in makes no progress on the input in
Stalled(in) ==
  \/ mode = EXECUTE_MODE /\ state = JOINT_CONTROLLER /\ ~NearReady(in.q, variant)
  \/ InReturn /\ ~GoalReached(variant, in)

\* C8: with the controller in EXECUTE in a stalled phase and the token "wait"
\* written to the store from outside, the controller is back in WAIT some
\* iterations later
OperatorCanForceWait ==
  \A in \in Inputs(variant) :
    LoopRuns /\ mode = EXECUTE_MODE /\ modechange = "wait" /\ Stalled(in) =>
      Run(Cur, in, PatienceTicks).mode = WAIT_MODE

\* well-formed shot commands and what they mean: x, y in m and psi in rad
Meaning(pos, ang, x, y, p) == [cmd |-> <<pos, ang>>, x |-> x, y |-> y, psi |-> p]

ShotMeanings ==
  { Meaning(Pos_100_50, Ang_15708, Dec(1, 1), Dec(5, 2), Dec(15708, 4)),
    Meaning(Pos_100_50, Ang_07, Dec(1, 1), Dec(5, 2), Dec(7, 1)),
    Meaning(Pos_m20_75, Ang_1571, Dec(-2, 2), Dec(75, 4), Dec(1571, 3)),
    Meaning(Pos_m20_75, Ang_15689, Dec(-2, 2), Dec(75, 4), Dec(15689, 4)) }

\* the iteration in which the interface variant activates
Activating == LoopRuns /\ variant = "interface" /\ mode = WAIT_MODE /\ modechange = "execute"

\* C9: on activation the drop-off string "a,b" is captured as the cue target
\* (0.001 a, 0.001 b) and the angle string as psi: "100,50" gives (0.1, 0.05),
\* and with the angle "1.5708" centershot is true after the activation
ShotStringsCaptured ==
  \A in \in Inputs(variant), c \in ShotMeanings :
    Activating =>
      LET n == LoopIteration(WithShot(Cur, c.cmd), in)
      IN /\ n.mode = EXECUTE_MODE /\ n.pc = "loop"
         /\ DecEq(n.cue_start_pos[1], c.x) /\ DecEq(n.cue_start_pos[2], c.y)
         /\ DecEq(n.psi, c.psi)
         /\ (c.cmd[2] = Ang_15708 => n.centershot)

\* the controller has activated on "100,50" and "1.5708"
Scenario1Activated ==
  /\ pc = "loop" /\ mode = EXECUTE_MODE /\ visited = <<JOINT_CONTROLLER>>
  /\ shotpos = Pos_100_50 /\ shotang = Ang_15708
  /\ DecEq(cue_start_pos[1], Dec(1, 1)) /\ DecEq(cue_start_pos[2], Dec(5, 2))
  /\ DecEq(psi, Dec(15708, 4)) /\ centershot
  /\ activations.last = "true"

\* the angle strings of the model that lie in [1.569, 1.571]
AnglesInBand == {Ang_15708, Ang_1571, Ang_1569}

\* C10: right after every activation, the first or a later one, centershot is
\* true iff the angle parsed at that activation lies in [1.569, 1.571]; a
\* flag of an earlier cycle does not carry over
FlagFollowsThisActivation ==
  \A in \in {Input(sn, TauJoint, TauPose) : sn \in MoreSnapshots(variant)},
     c \in AngleCommands :
    Activating =>
      LET n == LoopIteration(WithShot(Cur, c), in)
      IN /\ n.pc = "loop" <=> c[2] # Ang_bad
         /\ n.pc = "loop" => (n.centershot <=> c[2] \in AnglesInBand)

\* a cycle whose activation set the flag is followed by an activation that
\* leaves the flag false
FlagNotCarriedOver ==
  /\ pc = "loop" /\ mode = EXECUTE_MODE /\ visited = <<JOINT_CONTROLLER>>
  /\ activations = [before |-> "true", last |-> "false"]
  /\ ~centershot /\ DecEq(psi, Dec(7, 1))

\* C11: the drop-off position, the strike angle and the degenerate-strike flag
\* captured at an activation keep their values over every iteration that
\* starts and ends in EXECUTE, whatever the shot keys of the store hold and
\* whichever phase transition the iteration makes
ShotParametersFrozenInExecute ==
  \A in \in Inputs(variant), c \in ShotCommands :
    LoopRuns /\ mode = EXECUTE_MODE =>
      LET n == LoopIteration(WithShot(Cur, c), in)
      IN n.mode = EXECUTE_MODE =>
           /\ n.cue_start_pos = cue_start_pos
           /\ n.psi = psi
           /\ n.centershot = centershot

\* a drop-off string whose second number is followed by a letter
Pos_100_5x == <<"1", "0", "0", ",", "5", "x">>

\* shot commands that are malformed: a drop-off string that is not two numbers
\* with a comma between them, or an angle string that is no number
MalformedCommands ==
  { <<Pos_250, Ang_07>>, <<Pos_100_5x, Ang_07>>, <<Pos_bad, Ang_15708>>,
    <<Pos_100_50, Ang_bad>>, <<Pos_250, Ang_bad>> }

\* C12: an activation on a malformed drop-off string or on a non-numeric
\* angle string ends the process; the controller does not go on to EXECUTE
\* iterations with shot parameters taken from such a string
MalformedShotEndsProcess ==
  \A in \in Inputs(variant), c \in MalformedCommands :
    Activating => LoopIteration(WithShot(Cur, c), in).pc = "aborted"

\* the intervals [t_i, t_i+1) that hold the time t
IntervalsOf(t, slots) == {i \in 1..4 : Ms(slots[i]) <= t /\ t < Ms(slots[i + 1])}

\* the segments in the order of their intervals
SegmentNames == <<"home_to_cue", "arc", "dropoff_settle", "dropoff_shoot">>

\* C13: for every time t, negative ones included, the generator takes the
\* segment of the one half-open interval [t_i, t_i+1) that holds t, and the
\* home branch when none does; for t in [t_2, t_4) the desired position is the
\* drop-off position; for t < t_0 and for t >= t_4, so at t = 100, the desired
\* position is the home position and the desired orientation the home orientation
OneSegmentByHalfOpenIntervals ==
  probe.op = "trajectory" /\ probe.done =>
    /\ Cardinality(IntervalsOf(probe.t, t_slots)) <= 1
    /\ \A i \in IntervalsOf(probe.t, t_slots) : probe.segment = SegmentNames[i]
    /\ IntervalsOf(probe.t, t_slots) = {} => probe.segment = "home"
    /\ Ms(t_slots[3]) <= probe.t /\ probe.t < Ms(t_slots[5]) =>
         probe.x = xcd(variant, probe.cue)
    /\ probe.t < Ms(t_slots[1]) \/ probe.t >= Ms(t_slots[5]) =>
         probe.x = xh(variant) /\ probe.rot = 0

\* the generator was asked at t = t_4 for the drop-off of "100,50" and gave the
\* home position, and not the drop-off position (0.7885, 0.0420, 0.3120)
HomeFromT4On ==
  /\ probe.op = "trajectory" /\ probe.done /\ variant = "interface"
  /\ probe.t = Ms(t_slots[5]) /\ probe.cue = CueAt(Dec(1, 1), Dec(5, 2))
  /\ probe.segment = "home" /\ probe.x = <<2859, 2787, 4300>> /\ probe.rot = 0
  /\ xcd(variant, probe.cue) = <<7885, 420, 3120>>

\* the tolerance of the continuity check: 0.001 m and 0.001 rad, above the
\* rounding of the arithmetic
ContinuityTolerance == 10

\* the pose the formulas of the interval that ends at t_i take at t_i: the
\* limit of the desired pose from before the boundary
PointBefore(v, i, slots, cue) ==
  CASE i = 2 -> HomeToCue(v, Ms(slots[2]), slots)
    [] i = 3 -> CueToDropOff(v, Ms(slots[3]), slots, cue)
    [] i = 4 -> xcd(v, cue)

RotationBefore(v, i, slots, p) ==
  CASE i = 2 -> TurnToCue(v, Ms(slots[2]), slots)
    [] i = 3 -> GatherCoin(v)
    [] i = 4 -> hit_rot(v, p)

ClosePoints(a, b) == \A k \in 1..3 : Abs(a[k] - b[k]) <= ContinuityTolerance

CloseAngles(a, b) == Abs(WrapAngle(a - b)) <= ContinuityTolerance

\* C14: at each of the boundaries t_1, t_2, t_3 the desired position at the
\* boundary is within the tolerance of the desired position just before it,
\* and so is the desired orientation, for every drop-off position and strike
\* angle an activation accepts
PoseContinuousAtBoundaries ==
  \A i \in 2..4 :
    probe.op = "trajectory" /\ probe.done /\ variant = "interface"
      /\ probe.t = Ms(t_slots[i]) =>
        /\ ClosePoints(probe.x, PointBefore(variant, i, t_slots, probe.cue))
        /\ CloseAngles(probe.rot, RotationBefore(variant, i, t_slots, probe.psi))

\* by how much the norms are increased: 0.001, 0.01 and 1
Increases == {1, 10, 1000}

\* tolerances from the starter's 0.001 to beyond the interface's 3
Tolerances == {1, 2, 2999, 3000, 3001, 100000}

\* the norms e with one of them increased by d
Increased(e, d) ==
  { [e EXCEPT !.xdot = @ + d], [e EXCEPT !.xerr = @ + d], [e EXCEPT !.xddot = @ + d],
    [e EXCEPT !.omega = @ + d], [e EXCEPT !.alpha = @ + d] }

ReachedFor(eps, e) == ReachedAt(eps, e.xdot, e.xerr, e.xddot, e.omega, e.alpha)

\* C15: when robotReachedGoal answers not reached, it answers not reached
\* with any one norm increased and the others kept; when it answers reached,
\* the same comparison with any larger tolerance answers reached too
ReachedGoalMonotone ==
  probe.op = "robotReachedGoal" /\ probe.done =>
    /\ probe.reached = ReachedFor(epsilon(variant), probe.ee)
    /\ ~probe.reached =>
         \A d \in Increases : \A e \in Increased(probe.ee, d) :
           ~GoalReached(variant, [ee |-> e])
    /\ probe.reached =>
         \A eps \in Tolerances : eps >= epsilon(variant) => ReachedFor(eps, probe.ee)

\* the interface's robotReachedGoal answered reached for a position error of
\* 0.299 m at rest, and answers not reached for 0.300 m
ReachedJustBelowThreshold ==
  /\ probe.op = "robotReachedGoal" /\ probe.done /\ variant = "interface"
  /\ probe.ee = EeNorms(0, 299, 0, 0, 0) /\ probe.reached
  /\ ~GoalReached(variant, [ee |-> EeNorms(0, 300, 0, 0, 0)])
  /\ ReachedFor(3001, probe.ee) /\ ~ReachedFor(2990, probe.ee)

\* the accesses to the store that read it, and the inspection, which prints
StoreReads ==
  {"get q", "get dq", "get modechange", "get shotpos", "get shotang", "get massmatrix"}

\* the writes to the store among the accesses of an iteration, in their order
StoreWrites(io) == SelectSeq(io, LAMBDA e : e \notin StoreReads \cup {"safetyChecks"})

\* C16: an iteration writes nothing to the store but the commanded torques
\* and the activation token; it writes the token only when it takes mode from
\* EXECUTE to WAIT, and then with "wait"; it leaves the shot keys as they are
\* and never puts "execute" into the token.  The code after the loop writes
\* the torques only.
StoreWritesOnlyTorqueAndWait ==
  /\ \A in \in Inputs(variant) :
       LoopRuns =>
         LET n == LoopIteration(Cur, in)
         IN /\ Range(StoreWrites(n.io)) \subseteq {"set fgc", "set modechange"}
            /\ n.shotpos = shotpos /\ n.shotang = shotang
            /\ (n.modechange # modechange \/ "set modechange" \in Range(n.io)) =>
                 /\ n.modechange = "wait"
                 /\ mode = EXECUTE_MODE /\ n.mode = WAIT_MODE
            /\ n.fgc # fgc => "set fgc" \in Range(n.io)
  /\ pc = "loop" /\ ~runloop =>
       /\ Range(StoreWrites(AfterLoop(Cur).io)) \subseteq {"set fgc"}
       /\ AfterLoop(Cur).modechange = modechange
       /\ AfterLoop(Cur).shotpos = shotpos /\ AfterLoop(Cur).shotang = shotang

\* the interface variant is back in WAIT after a whole cycle: the token, which
\* was "execute", holds the "wait" the controller wrote, and the shot keys
\* hold what the planner wrote
WaitWrittenAtReturn ==
  /\ pc = "loop" /\ variant = "interface" /\ mode = WAIT_MODE
  /\ visited = NominalCycle /\ modechange = "wait"
  /\ shotpos = Pos_100_50 /\ shotang = Ang_15708 /\ fgc # Zero7

\* how often the event e is among the store accesses io
Times(io, e) == Len(SelectSeq(io, LAMBDA x : x = e))

\* C17: every iteration that runs to its end, in WAIT as in EXECUTE, first
\* reads the sensed joint positions and velocities and last publishes the
\* commanded torques, once; an iteration in EXECUTE inspects the limits once
\* before it publishes, and publishes the torques it inspected
SensedFirstPublishedLast ==
  \A in \in Inputs(variant) :
    LoopRuns =>
      LET n == LoopIteration(Cur, in)
      IN n.pc = "loop" =>
           /\ Len(n.io) >= 3
           /\ n.io[1] = "get q" /\ n.io[2] = "get dq"
           /\ n.io[Len(n.io)] = "set fgc" /\ Times(n.io, "set fgc") = 1
           /\ n.fgc = n.command_torques
           /\ mode = EXECUTE_MODE =>
                /\ Times(n.io, "safetyChecks") = 1
                /\ \E k \in 1..(Len(n.io) - 1) : n.io[k] = "safetyChecks"

\* C18: an iteration in APPROACH goes to TRACK exactly when the sensed joint
\* positions are within 0.15 of the ready posture, and stays in APPROACH
\* otherwise; the iteration that goes to TRACK sets the counter to 0, so that
\* it ends, its own count made, with the counter at 1, and it leaves as the
\* target of TRACK the trajectory at t = 0
TrackStartsAtTimeZero ==
  \A in \in Inputs(variant) :
    LoopRuns /\ mode = EXECUTE_MODE /\ state = JOINT_CONTROLLER =>
      LET n == LoopIteration(Cur, in)
      IN /\ n.mode = EXECUTE_MODE
         /\ n.state = (IF NearReady(in.q, variant) THEN POSORI_CONTROLLER
                       ELSE JOINT_CONTROLLER)
         /\ n.state = POSORI_CONTROLLER =>
              /\ n.controller_counter = 1
              /\ n.posori_task.desired = TrajectoryTarget(0, psi)
         /\ n.state = JOINT_CONTROLLER =>
              n.controller_counter = controller_counter + 1

\* TRACK: pose control before the shot
InTrack ==
  mode = EXECUTE_MODE /\ state = POSORI_CONTROLLER
    /\ visited = <<JOINT_CONTROLLER, POSORI_CONTROLLER>>

\* C19: an iteration in TRACK whose time t lies in [t_3, t_3 + total_time),
\* t = t_3 included, enters SHOT, and an iteration in TRACK enters SHOT at no
\* other time
ShotEnteredFromT3On ==
  \A in \in Inputs(variant) :
    LoopRuns /\ InTrack
      /\ ~(GoalReached(variant, in) /\ TimeOf(controller_counter) > Ms(t_slots[5])) =>
        (LoopIteration(Cur, in).state = JOINT_CONTROLLER_SHOT
           <=> /\ TimeOf(controller_counter) >= Ms(t_slots[4])
               /\ LtPlus(TimeOf(controller_counter), t_slots[4], total_time))

\* the time of the iteration in which TRACK enters SHOT: TRACK counts from 0
\* and the first time beyond t_3 starts the shot
ShotBegan(slots) == TimeOf((Ms(slots[4]) \div 1000) + 1)

\* C20: t_0 < t_1 < t_2 < t_3 < t_4 holds in every state; no iteration
\* changes t_0 .. t_3; an iteration changes t_4 exactly when it takes the
\* interface variant from SHOT to RETURN, and t_4 is then the time at which
\* SHOT began plus total_time
BoundariesFixedButT4Reanchored ==
  /\ \A i \in 1..4 : t_slots[i] < t_slots[i + 1]
  /\ \A in \in Inputs(variant) :
       LoopRuns =>
         LET n == LoopIteration(Cur, in)
             ends == /\ mode = EXECUTE_MODE /\ state = JOINT_CONTROLLER_SHOT
                     /\ n.state = POSORI_CONTROLLER
         IN /\ \A i \in 1..4 : n.t_slots[i] = t_slots[i]
            /\ ~ends => n.t_slots[5] = t_slots[5]
            /\ ends /\ variant = "interface" =>
                 /\ n.t_slots[5] # t_slots[5]
                 /\ Ms(n.t_slots[5]) = ShotBegan(t_slots) + Ms(total_time.ms)
                 /\ n.t_slots[4] < n.t_slots[5]

\* SHOT: the flick of the terminal joint
InShot == mode = EXECUTE_MODE /\ state = JOINT_CONTROLLER_SHOT

\* C21 as stated: the iteration that goes from APPROACH to TRACK sets the
\* pivot angle theta_mid to the terminal angle of the joint target of that
\* moment, and no iteration in TRACK or in SHOT changes it
PivotCapturedAtTrackEntry ==
  \A in \in Inputs(variant) :
    LoopRuns /\ mode = EXECUTE_MODE /\ variant = "interface" =>
      LET n == LoopIteration(Cur, in)
      IN /\ state = JOINT_CONTROLLER /\ n.state = POSORI_CONTROLLER =>
              n.theta_mid = q_init_desired(variant)[dof]
         /\ InTrack \/ InShot => n.theta_mid = theta_mid

\* C21, amended: the iteration of the interface variant that goes from TRACK
\* to SHOT sets theta_mid to
\* the terminal joint's angle sensed in that iteration, to which the joint
\* target was just re-initialised; no other iteration changes theta_mid, so
\* it is unchanged to the end of SHOT, and every target SHOT gives the
\* terminal joint is theta_mid + pi/24 or theta_mid - pi/4
PivotCapturedAtShotEntry ==
  /\ \A in \in CheckedInputs(variant) :
       LoopRuns /\ variant = "interface" /\ InTrack
         /\ TimeOf(controller_counter) > Ms(t_slots[4]) =>
         LET n == LoopIteration(Cur, in)
         IN n.state = JOINT_CONTROLLER_SHOT =>
              /\ n.theta_mid = in.q[dof]
              /\ n.joint_task.desired = Posture("sensed q")
  /\ \A in \in Inputs(variant) :
       LoopRuns =>
         LET n == LoopIteration(Cur, in)
         IN /\ ~(variant = "interface" /\ InTrack /\ n.state = JOINT_CONTROLLER_SHOT) =>
                 n.theta_mid = theta_mid
            /\ variant = "interface" /\ InShot /\ n.joint_task.desired.last_set =>
                 n.joint_task.desired.last \in
                   {theta_mid + PiOver(24), theta_mid - PiOver(4)}

\* the interface variant is in SHOT, striking about the angle sensed at the
\* entry into SHOT, which is not the angle theta_mid started with
StrikingAboutSensedAngle ==
  /\ pc = "loop" /\ variant = "interface" /\ InShot
  /\ theta_mid = q_init_desired(variant)[dof] /\ theta_mid # -830
  /\ joint_task.desired.last_set
  /\ joint_task.desired.last = theta_mid - PiOver(4)

\* C22: the joint proportional gain with which the first iteration of SHOT
\* computes the joint torques is greater than the one with which the last
\* iteration of TRACK computed them, and no later iteration of SHOT computes
\* them with a smaller gain than the iteration before it
ShotRaisesJointGain ==
  \A in \in Inputs(variant) :
    /\ LoopRuns /\ InTrack =>
         LET n == LoopIteration(Cur, in)
         IN n.state = JOINT_CONTROLLER_SHOT =>
              LoopIteration(n, in).synth.joint.kp > n.synth.joint.kp
    /\ LoopRuns /\ InShot =>
         LoopIteration(Cur, in).synth.joint.kp >= synth.joint.kp

\* the iteration about to run is one of the strike stage of SHOT
InStrikeStage ==
  /\ variant = "interface" /\ InShot
  /\ TimeOf(controller_counter) >= Ms(t_slots[5])
  /\ DiffLe(TimeOf(controller_counter), t_slots[5], total_time)

\* C23: every iteration of the strike stage computes the joint torques with
\* velocity saturation on and the terminal joint's cap at 2.33 when this
\* cycle's activation set centershot, at 3.0 when it did not; centershot has
\* its value of the activation before and after the iteration
StrikeCapFollowsActivationFlag ==
  \A in \in Inputs(variant) :
    LoopRuns /\ InStrikeStage =>
      LET n == LoopIteration(Cur, in)
      IN /\ centershot <=> activations.last = "true"
         /\ n.centershot = centershot
         /\ n.synth.joint.sat[dof] = (IF activations.last = "true" THEN 2330 ELSE 3000)
         /\ n.synth.joint.sat[dof - 1] = PiOver(2)
         /\ n.joint_task.flag

\* an iteration of the strike stage has computed the torques with the cap
\* 2.33, in a cycle activated with centershot set
StruckWithSlowerCap ==
  /\ pc = "loop" /\ variant = "interface" /\ InShot
  /\ activations.last = "true" /\ centershot
  /\ synth.joint.sat[dof] = 2330 /\ joint_task.desired.last = theta_mid - PiOver(4)

\* C24: after every iteration that takes mode from WAIT to EXECUTE, the first
\* activation or a later one, the counter is 0, so that the first iteration
\* in EXECUTE runs at t = 0
CounterZeroAtActivation ==
  \A in \in Inputs(variant) :
    LoopRuns /\ mode = WAIT_MODE =>
      LET n == LoopIteration(Cur, in)
      IN n.pc = "loop" /\ n.mode = EXECUTE_MODE => n.controller_counter = 0

\* the gains at the computeTorques calls of the first cycle's APPROACH and
\* TRACK: the configuration before the loop with the assignments of the phase
FirstCycleGains(v, phase) ==
  [joint |-> [kp |-> IF phase = JOINT_CONTROLLER THEN 250
                     ELSE IF v = "interface" THEN 300 ELSE 0,
              kv |-> IF phase = JOINT_CONTROLLER THEN InitJointTask(v).kv
                     ELSE IF v = "interface" THEN 25 ELSE InitJointTask(v).kv,
              sat |-> InitJointTask(v).sat],
   posori |-> [kp_pos |-> InitPosoriTask(v).kp_pos, kv_pos |-> InitPosoriTask(v).kv_pos,
               kp_ori |-> InitPosoriTask(v).kp_ori, kv_ori |-> InitPosoriTask(v).kv_ori]]

\* C25: the gains at torque synthesis are those of the phase in every cycle:
\* an iteration in APPROACH synthesises with the joint gains and velocity
\* caps of the first cycle's APPROACH, an iteration in TRACK with the joint
\* and pose gains and the caps of the first cycle's TRACK
GainsDeterminedByPhase ==
  \A in \in Inputs(variant) :
    LoopRuns /\ mode = EXECUTE_MODE =>
      LET n == LoopIteration(Cur, in)
      IN /\ state = JOINT_CONTROLLER =>
              n.synth.joint = FirstCycleGains(variant, JOINT_CONTROLLER).joint
         /\ InTrack => n.synth = FirstCycleGains(variant, POSORI_CONTROLLER)

\* C26: in every state between two iterations, in both variants, mode = WAIT
\* goes with state = JOINT_CONTROLLER; and no iteration of the pose branch, on
\* any input, both returns to WAIT and enters the shot
WaitOnlyInApproach ==
  /\ mode = WAIT_MODE => state = JOINT_CONTROLLER
  /\ \A in \in CheckedInputs(variant) :
       LoopRuns /\ mode = EXECUTE_MODE /\ state = POSORI_CONTROLLER =>
         LET n == LoopIteration(Cur, in)
         IN ~(n.mode = WAIT_MODE /\ n.state = JOINT_CONTROLLER_SHOT)

\* the starter variant is back in WAIT from the pose branch, with the state
\* that APPROACH runs in
BackInWaitInApproach ==
  /\ pc = "loop" /\ variant = "starter" /\ mode = WAIT_MODE
  /\ visited # <<>> /\ visited[Len(visited)] = POSORI_CONTROLLER
  /\ modechange = "wait" /\ state = JOINT_CONTROLLER

\* C27: in the interface variant TRACK and SHOT run on the clock alone. On
\* every input, an iteration in TRACK or SHOT that runs to its end stays in
\* EXECUTE and counts one tick; from TRACK it enters SHOT exactly when t > t_3
\* and from SHOT it enters RETURN exactly when t > t_4 + total_time; TRACK is
\* never found more than one tick past t_3, nor SHOT more than one tick past
\* t_4 + total_time
TrackAndShotRunOnTheClock ==
  /\ variant = "interface" /\ InTrack => TimeOf(controller_counter - 1) <= Ms(t_slots[4])
  /\ variant = "interface" /\ InShot =>
       ~GtPlus(TimeOf(controller_counter - 1), t_slots[5], total_time)
  /\ \A in \in CheckedInputs(variant) :
       LoopRuns /\ variant = "interface" /\ (InTrack \/ InShot) =>
         LET n == LoopIteration(Cur, in)
             t == TimeOf(controller_counter)
         IN /\ n.pc = "loop" /\ n.mode = EXECUTE_MODE
            /\ n.controller_counter = controller_counter + 1
            /\ InTrack => n.state = (IF t > Ms(t_slots[4]) THEN JOINT_CONTROLLER_SHOT
                                     ELSE POSORI_CONTROLLER)
            /\ InShot => n.state = (IF GtPlus(t, t_slots[5], total_time)
                                    THEN POSORI_CONTROLLER ELSE JOINT_CONTROLLER_SHOT)

\* the interface variant has just entered RETURN, in the first iteration of
\* SHOT with t > t_4 + total_time
ReturnEnteredOnTheClock ==
  /\ pc = "loop" /\ variant = "interface" /\ InReturn
  /\ GtPlus(TimeOf(controller_counter - 1), t_slots[5], total_time)
  /\ ~GtPlus(TimeOf(controller_counter - 2), t_slots[5], total_time)

\* C28: one write of "execute" gives one cycle. The activation leaves the
\* token "execute" in the store; no iteration in EXECUTE reads the token, and
\* the one that returns to WAIT writes "wait", once; an iteration in WAIT on
\* any token other than "execute" stays in WAIT and leaves the token alone
OneWriteOneCycle ==
  \A in \in Inputs(variant) :
    LoopRuns =>
      LET n == LoopIteration(Cur, in)
      IN /\ mode = WAIT_MODE /\ n.mode = EXECUTE_MODE /\ n.pc = "loop" =>
              modechange = "execute" /\ n.modechange = "execute"
         /\ mode = EXECUTE_MODE =>
              /\ Times(n.io, "get modechange") = 0
              /\ n.mode = WAIT_MODE =>
                   n.modechange = "wait" /\ Times(n.io, "set modechange") = 1
              /\ n.mode = EXECUTE_MODE =>
                   n.modechange = modechange /\ Times(n.io, "set modechange") = 0
         /\ mode = WAIT_MODE /\ modechange # "execute" =>
              /\ n.mode = WAIT_MODE /\ n.state = state /\ n.pc = "loop"
              /\ n.modechange = modechange
              /\ Times(n.io, "get modechange") = 1

\* after a whole cycle the interface variant has run an iteration in WAIT on
\* the "wait" it wrote at the return, and is still in WAIT
StaysInWaitAfterCycle ==
  /\ pc = "loop" /\ variant = "interface" /\ mode = WAIT_MODE
  /\ visited = NominalCycle /\ modechange = "wait"
  /\ joint_task.desired = Posture("sensed q")

\* C29: the soft limits are inspected in exactly the iterations that begin in
\* EXECUTE, once in each, on the q and dq read in that iteration and on the
\* torque it commands; an iteration that begins in WAIT, the activating one
\* included, inspects nothing
SafetyInspectsExecuteTicksOnly ==
  \A in \in CheckedInputs(variant) :
    LoopRuns =>
      LET n == LoopIteration(Cur, in)
      IN /\ mode = EXECUTE_MODE =>
              /\ Times(n.io, "safetyChecks") = 1
              /\ n.reports = safetyChecks(variant, in.q, in.dq, n.command_torques)
         /\ mode = WAIT_MODE =>
              Times(n.io, "safetyChecks") = 0 /\ n.reports = <<>>

\* the first iteration in EXECUTE after the activating one has run and has
\* published the torque it inspected
FirstExecuteTickInspected ==
  /\ pc = "loop" /\ mode = EXECUTE_MODE /\ visited = <<JOINT_CONTROLLER>>
  /\ activations.before = "none" /\ controller_counter = 1
  /\ fgc = command_torques /\ fgc # Zero7
====
